---------------------------- MODULE Spec2Model ----------------------------
(***************************************************************************)
(* A model of Cuely's link-graph core: the URL normaliser                  *)
(* (src/webpage/url.rs), the Webgraph facade with its shortest-path and    *)
(* harmonic-centrality queries and its freeze/thaw round trip              *)
(* (src/webgraph/mod.rs), and the map-reduce coordinator                   *)
(* (src/mapreduce/mod.rs).                                                 *)
(*                                                                         *)
(* Rust strings are sequences of one-character strings, so that the        *)
(* slicing and searching the URL code does is computed and not assumed.    *)
(* String offsets are Rust's: 0-based, Option<usize> None is written -1.   *)
(***************************************************************************)
EXTENDS Integers, Sequences, FiniteSets, TLC

(***************************************************************************)
(* Generic helpers (Rust std: slices, str::find, str::rfind, ...).         *)
(***************************************************************************)
Range(f) == {f[i] : i \in DOMAIN f}

\* Option<T>: None is the empty set, Some(x) the singleton {x}.
None == {}

Some(x) == {x}

Unwrap(o) == CHOOSE x \in o : TRUE

\* s[a..b] of Rust: the characters at 0-based offsets a .. b-1.
Slice(s, a, b) == SubSeq(s, a + 1, b)

\* s[a..] of Rust.
SliceFrom(s, a) == SubSeq(s, a + 1, Len(s))

\* str::starts_with
StartsWith(s, p) == Len(p) <= Len(s) /\ SubSeq(s, 1, Len(p)) = p

\* str::find(char): offset of the first occurrence, -1 for None.
Find(s, c) ==
    IF \E i \in 1..Len(s) : s[i] = c
    THEN (CHOOSE i \in 1..Len(s) : s[i] = c /\ \A j \in 1..(i - 1) : s[j] # c) - 1
    ELSE -1

\* str::rfind(char): offset of the last occurrence, -1 for None.
RFind(s, c) ==
    IF \E i \in 1..Len(s) : s[i] = c
    THEN (CHOOSE i \in 1..Len(s) : s[i] = c /\ \A j \in (i + 1)..Len(s) : s[j] # c) - 1
    ELSE -1

\* str::contains(char)
Contains(s, c) == \E i \in 1..Len(s) : s[i] = c

\* str::strip_suffix: the prefix when s ends with suf, otherwise None.
StripSuffix(s, suf) ==
    IF Len(suf) <= Len(s) /\ SubSeq(s, Len(s) - Len(suf) + 1, Len(s)) = suf
    THEN Some(SubSeq(s, 1, Len(s) - Len(suf)))
    ELSE None

(***************************************************************************)
(* Url (src/webpage/url.rs).                                               *)
(***************************************************************************)
HttpPrefix == <<"h", "t", "t", "p", ":", "/", "/">>
HttpsPrefix == <<"h", "t", "t", "p", "s", ":", "/", "/">>
SlashSlash == <<"/", "/">>
CoUk == <<"c", "o", ".", "u", "k">>
Www == <<"w", "w", "w">>

strip_protocol(url) ==
    IF StartsWith(url, HttpPrefix) \/ StartsWith(url, HttpsPrefix)
          \/ StartsWith(url, SlashSlash)
    THEN SliceFrom(url, Find(url, "/") + 2)
    ELSE SliceFrom(url, 0)

\* host, given url = strip_protocol(..): the part before the first '/'.
host_of_stripped(url) ==
    Slice(url, 0, IF Contains(url, "/") THEN Find(url, "/") ELSE Len(url))

host(u) == host_of_stripped(strip_protocol(u))

\* domain without the co.uk carve-out.
domain_start_index_two_labels(h, start_index) == start_index

\* subdomain keeping the separating dot.
subdomain_of_stripped_keeps_dot(sub) == IF sub = <<>> THEN None ELSE Some(sub)

\* domain: start_index moved one label back when the suffix is co.uk.
co_uk_start_index(new_start_index) ==
    IF new_start_index # -1 THEN new_start_index + 1 ELSE 0

domain_start_index(h, start_index) ==
    IF SliceFrom(h, start_index) = CoUk
    THEN co_uk_start_index(RFind(Slice(h, 0, start_index - 1), "."))
    ELSE start_index

\* domain, given h = host(..).
domain_of_host(h) ==
    IF Cardinality({i \in 1..Len(h) : h[i] = "."}) > 1
    THEN SliceFrom(h, domain_start_index(h, RFind(Slice(h, 0, RFind(h, ".")), ".") + 1))
    ELSE h

domain(u) == domain_of_host(host(u))

\* subdomain, given the prefix sub left by host.strip_suffix(domain).
subdomain_of_stripped(sub) ==
    IF sub = <<>> \/ sub = <<".">> THEN None ELSE Some(Slice(sub, 0, Len(sub) - 1))

\* subdomain, given h = host(..): None when strip_suffix is None.
subdomain_of(h) ==
    UNION {subdomain_of_stripped(sub) : sub \in StripSuffix(h, domain_of_host(h))}

subdomain(u) == subdomain_of(host(u))

\* host_without_specific_subdomains, given h = host(..).
host_without_www(h) ==
    IF subdomain_of(h) = Some(Www) THEN domain_of_host(h) ELSE h

host_without_specific_subdomains(u) == host_without_www(host(u))

\* into_host keeping the www subdomain.
into_host_keeps_www(name) == host(name)

\* Node::into_host
into_host(name) == host_without_specific_subdomains(name)

(***************************************************************************)
(* Adjacency and GraphStore (webgraph/graph_store.rs, described in         *)
(* sections 3, 4.3 and 4.4 of the specification).                          *)
(*                                                                         *)
(* An adjacency is a block store: block id b holds a map from the node     *)
(* ids n with n \div BLOCK_SIZE = b to their sequences of StoredEdge.      *)
(* The model keeps BLOCK_SIZE small so that graphs of a few nodes span     *)
(* several blocks.                                                         *)
(***************************************************************************)
BLOCK_SIZE == 2

StoredEdge(other, label) == [other |-> other, label |-> label]

Edge(from, to, label) == [from |-> from, to |-> to, label |-> label]

FullEdge(from, to, label) == [from |-> from, to |-> to, label |-> label]

EmptyAdjacency == <<>>

\* Adjacency::edges(source): the block's sequence for source, possibly empty.
AdjEdges(adj, source) ==
    LET b == source \div BLOCK_SIZE
    IN  IF b \in DOMAIN adj /\ source \in DOMAIN adj[b] THEN adj[b][source] ELSE <<>>

\* Adjacency::insert(source, edge): read block, append under source, write back.
AdjInsert(adj, source, e) ==
    LET b == source \div BLOCK_SIZE
        block == IF b \in DOMAIN adj THEN adj[b] ELSE <<>>
        new_block == (source :> Append(AdjEdges(adj, source), e)) @@ block
    IN  (b :> new_block) @@ adj

\* The four key-value stores of one graph directory, all empty.
EmptyStore ==
    [node2id |-> <<>>, id2node |-> <<>>,
     adjacency |-> EmptyAdjacency, reversed_adjacency |-> EmptyAdjacency]

\* GraphStore::node2id
node2id(store, node) ==
    IF node \in DOMAIN store.node2id THEN Some(store.node2id[node]) ELSE None

\* GraphStore::id2node
id2node(store, id) ==
    IF id \in DOMAIN store.id2node THEN Some(store.id2node[id]) ELSE None

\* GraphStore::nodes(): all node ids, in assignment order.
StoreNodes(store) == [i \in 1..store.next_id |-> i - 1]

\* Assign the next id to node unless it has one.
AssignId(store, node) ==
    IF node \in DOMAIN store.node2id
    THEN store
    ELSE [store EXCEPT !.node2id = (node :> store.next_id) @@ @,
                       !.id2node = (store.next_id :> node) @@ @,
                       !.next_id = @ + 1]

\* GraphStore::insert(from, to, label)
StoreInsert(store, from, to, label) ==
    LET s1 == AssignId(store, from)
        s2 == AssignId(s1, to)
        from_id == s2.node2id[from]
        to_id == s2.node2id[to]
    IN  [s2 EXCEPT
            !.adjacency = AdjInsert(@, from_id, StoredEdge(to_id, label)),
            !.reversed_adjacency = AdjInsert(@, to_id, StoredEdge(from_id, label))]

\* GraphStore::outgoing_edges(id): Edges with from = id.
outgoing_edges(store, id) ==
    LET es == AdjEdges(store.adjacency, id)
    IN  [i \in 1..Len(es) |-> Edge(id, es[i].other, es[i].label)]

\* GraphStore::ingoing_edges(id): Edges with to = id.
ingoing_edges(store, id) ==
    LET es == AdjEdges(store.reversed_adjacency, id)
    IN  [i \in 1..Len(es) |-> Edge(es[i].other, id, es[i].label)]

\* Every edge of the store, by ascending source id, each source's in order.
RECURSIVE StoreEdgesFrom(_, _)
StoreEdgesFrom(store, id) ==
    IF id >= store.next_id
    THEN <<>>
    ELSE outgoing_edges(store, id) \o StoreEdgesFrom(store, id + 1)

StoreEdges(store) == StoreEdgesFrom(store, 0)

\* GraphStore::append(other): re-insert other's edges by node name.
RECURSIVE AppendEdges(_, _, _, _)
AppendEdges(store, other, es, k) ==
    IF k > Len(es)
    THEN store
    ELSE AppendEdges(
             StoreInsert(store, other.id2node[es[k].from], other.id2node[es[k].to],
                         es[k].label),
             other, es, k + 1)

StoreAppend(store, other) == AppendEdges(store, other, StoreEdges(other), 1)

\* What flush writes to the store's directory: the four key-value stores.
StoreContents(store) ==
    [node2id |-> store.node2id, id2node |-> store.id2node,
     adjacency |-> store.adjacency, reversed_adjacency |-> store.reversed_adjacency]

\* GraphStore::open(path) over the directory's contents (absent: created empty).
StoreOpen(path, fs) ==
    LET c == IF path \in DOMAIN fs THEN fs[path] ELSE EmptyStore
    IN  [path |-> path,
         node2id |-> c.node2id, id2node |-> c.id2node,
         adjacency |-> c.adjacency, reversed_adjacency |-> c.reversed_adjacency,
         next_id |-> Cardinality(DOMAIN c.id2node)]

(***************************************************************************)
(* Webgraph (src/webgraph/mod.rs): insert, merge, flush.                   *)
(* A Webgraph is [path, full_graph, host_graph], each graph an             *)
(* Option<GraphStore>.  fs is the file system: a map from the path of a    *)
(* graph directory, <<P, "full">> or <<P, "host">>, to its contents.       *)
(***************************************************************************)
FullPath(path) == <<path, "full">>

HostPath(path) == <<path, "host">>

\* WebgraphBuilder::new(path) [.with_full_graph()] [.with_host_graph()] .open()
BuilderOpen(path, with_full, with_host, fs) ==
    [path |-> path,
     full_graph |-> IF with_full THEN Some(StoreOpen(FullPath(path), fs)) ELSE None,
     host_graph |-> IF with_host THEN Some(StoreOpen(HostPath(path), fs)) ELSE None]

\* The directories the open stores of a Webgraph create on opening.
OpenedDirs(wg, fs) ==
    LET stores == wg.full_graph \cup wg.host_graph
        fresh == {s.path : s \in stores} \ DOMAIN fs
    IN  [p \in fresh |-> EmptyStore] @@ fs

\* Webgraph::insert
WebgraphInsert(wg, from, to, label) ==
    LET full == IF wg.full_graph # None
                THEN Some(StoreInsert(Unwrap(wg.full_graph), from, to, label))
                ELSE None
        hostg == IF wg.host_graph # None
                 THEN Some(StoreInsert(Unwrap(wg.host_graph), into_host(from),
                                       into_host(to), label))
                 ELSE None
    IN  [wg EXCEPT !.full_graph = full, !.host_graph = hostg]

\* merge ignoring the other graph when both sides have the projection.
MergeGraph_keeps_self(self_graph, other_graph) ==
    IF self_graph = None /\ other_graph # None THEN other_graph ELSE self_graph

\* One arm of Webgraph::merge: match (&mut self.graph, other.graph).
MergeGraph(self_graph, other_graph) ==
    IF self_graph # None /\ other_graph # None
    THEN Some(StoreAppend(Unwrap(self_graph), Unwrap(other_graph)))
    ELSE IF self_graph = None /\ other_graph # None
    THEN other_graph
    ELSE self_graph

\* Webgraph::flush: every open store writes its contents to its directory.
WebgraphFlush(wg, fs) ==
    LET stores == wg.full_graph \cup wg.host_graph
    IN  [p \in {s.path : s \in stores} |->
            StoreContents(CHOOSE s \in stores : s.path = p)] @@ fs

\* Webgraph::merge, before its trailing flush.
WebgraphMerge(wg, other) ==
    [wg EXCEPT !.full_graph = MergeGraph(wg.full_graph, other.full_graph),
               !.host_graph = MergeGraph(wg.host_graph, other.host_graph)]

(***************************************************************************)
(* Shortest paths (Webgraph::dijkstra).  The traversal is parameterised    *)
(* in the code by two closures; here dir = "out" stands for                *)
(* (outgoing_edges, edge.to) and dir = "in" for (ingoing_edges,            *)
(* edge.from).  The heap is a BinaryHeap<Reverse<(usize, NodeID)>>: pop    *)
(* returns the least (cost, node) pair.                                    *)
(***************************************************************************)
node_edges(store, dir, v) ==
    IF dir = "out" THEN outgoing_edges(store, v) ELSE ingoing_edges(store, v)

\* edge_node with the closures of the two traversals exchanged.
edge_node_swapped(dir, e) == IF dir = "out" THEN e.from ELSE e.to

edge_node(dir, e) == IF dir = "out" THEN e.to ELSE e.from

HeapLeq(a, b) == a[1] < b[1] \/ (a[1] = b[1] /\ a[2] <= b[2])

\* Index of the entry BinaryHeap::pop returns.
HeapMinIndex(q) == CHOOSE i \in 1..Len(q) : \A j \in 1..Len(q) : HeapLeq(q[i], q[j])

HeapRemove(q, i) == SubSeq(q, 1, i - 1) \o SubSeq(q, i + 1, Len(q))

\* The relaxation test with >= in place of >.
DistGreater_or_equal(distances, w, c) == w \notin DOMAIN distances \/ distances[w] >= c

\* distances.get(&w).unwrap_or(&usize::MAX) > c, for the costs c a graph
\* of fewer than usize::MAX nodes produces.
DistGreater(distances, w, c) == w \notin DOMAIN distances \/ distances[w] > c

\* if cost + 1 < dist(edge_node(edge)) { queue.push(..); distances.insert(..) }
RelaxEdge(st, dir, e, cost) ==
    LET w == edge_node(dir, e)
    IN  IF DistGreater(st.distances, w, cost + 1)
        THEN [queue |-> Append(st.queue, <<cost + 1, w>>),
              distances |-> (w :> (cost + 1)) @@ st.distances]
        ELSE st

\* for edge in node_edges(v) { ... }
RECURSIVE RelaxEdges(_, _, _, _, _)
RelaxEdges(st, dir, es, k, cost) ==
    IF k > Len(es)
    THEN st
    ELSE RelaxEdges(RelaxEdge(st, dir, es[k], cost), dir, es, k + 1, cost)

\* One iteration of `while let Some(state) = queue.pop()`.
DijkstraStep(st, store, dir) ==
    LET i == HeapMinIndex(st.queue)
        cost == st.queue[i][1]
        v == st.queue[i][2]
        popped == [st EXCEPT !.queue = HeapRemove(@, i)]
    IN  IF v \in DOMAIN st.distances /\ cost > st.distances[v]
        THEN popped
        ELSE RelaxEdges(popped, dir, node_edges(store, dir, v), 1, cost)

RECURSIVE DijkstraLoop(_, _, _)
DijkstraLoop(st, store, dir) ==
    IF st.queue = <<>>
    THEN st.distances
    ELSE DijkstraLoop(DijkstraStep(st, store, dir), store, dir)

DijkstraInit(source_id) ==
    [queue |-> <<<<0, source_id>>>>, distances |-> (source_id :> 0)]

\* dijkstra without the early return for an unknown source (id 0 assumed).
dijkstra_unchecked_source(source, dir, store) ==
    LET source_id == node2id(store, source)
    IN  DijkstraLoop(DijkstraInit(IF source_id = None THEN 0 ELSE Unwrap(source_id)),
                     store, dir)

\* Webgraph::dijkstra: HashMap<NodeID, usize>, empty for an unknown source.
dijkstra(source, dir, store) ==
    LET source_id == node2id(store, source)
    IN  IF source_id = None
        THEN <<>>
        ELSE DijkstraLoop(DijkstraInit(Unwrap(source_id)), store, dir)

(***************************************************************************)
(* Query results.  A query either returns a value or panics (an expect or  *)
(* unwrap on None, an arithmetic overflow under overflow checks).          *)
(***************************************************************************)
Ok(v) == [ok |-> TRUE, value |-> v]

Panic == [ok |-> FALSE, value |-> <<>>]

\* .map(|(id, dist)| (id2node(&id).expect("unknown node"), dist)).collect()
RehydrateDistances(store, d) ==
    IF \E id \in DOMAIN d : id2node(store, id) = None
    THEN Panic
    ELSE Ok([n \in {store.id2node[id] : id \in DOMAIN d} |->
                d[CHOOSE id \in DOMAIN d : store.id2node[id] = n]])

\* Webgraph::distances
distances(wg, source) ==
    IF wg.full_graph = None
    THEN Ok(<<>>)
    ELSE LET full_graph == Unwrap(wg.full_graph)
         IN  RehydrateDistances(full_graph, dijkstra(source, "out", full_graph))

\* raw_reversed_distances walking the outgoing edges.
raw_reversed_distances_outgoing(wg, source) ==
    IF wg.full_graph = None
    THEN <<>>
    ELSE dijkstra(source, "out", Unwrap(wg.full_graph))

\* Webgraph::raw_reversed_distances
raw_reversed_distances(wg, source) ==
    IF wg.full_graph = None
    THEN <<>>
    ELSE dijkstra(source, "in", Unwrap(wg.full_graph))

\* Webgraph::reversed_distances
reversed_distances(wg, source) ==
    IF wg.full_graph = None
    THEN Ok(<<>>)
    ELSE RehydrateDistances(Unwrap(wg.full_graph), raw_reversed_distances(wg, source))

\* Webgraph::host_distances
host_distances(wg, source) ==
    IF wg.host_graph = None
    THEN Ok(<<>>)
    ELSE LET host_graph == Unwrap(wg.host_graph)
         IN  RehydrateDistances(host_graph, dijkstra(source, "out", host_graph))

\* Webgraph::raw_host_reversed_distances
raw_host_reversed_distances(wg, source) ==
    IF wg.host_graph = None
    THEN <<>>
    ELSE dijkstra(source, "in", Unwrap(wg.host_graph))

\* Webgraph::host_reversed_distances
host_reversed_distances(wg, source) ==
    IF wg.host_graph = None
    THEN Ok(<<>>)
    ELSE RehydrateDistances(Unwrap(wg.host_graph),
                            raw_host_reversed_distances(wg, source))

\* Webgraph::ingoing_edges rehydrating from and to the wrong way round.
WebgraphIngoingEdges_swapped(wg, node) ==
    IF wg.full_graph # None
    THEN LET graph == Unwrap(wg.full_graph)
             nid == node2id(graph, node)
         IN  IF nid # None
             THEN LET es == ingoing_edges(graph, Unwrap(nid))
                  IN  Ok([i \in 1..Len(es) |->
                             FullEdge(graph.id2node[es[i].to],
                                      graph.id2node[es[i].from], es[i].label)])
             ELSE Ok(<<>>)
    ELSE Ok(<<>>)

\* Webgraph::ingoing_edges: FullEdges into node on the full graph.
WebgraphIngoingEdges(wg, node) ==
    IF wg.full_graph # None
    THEN LET graph == Unwrap(wg.full_graph)
             nid == node2id(graph, node)
         IN  IF nid # None
             THEN LET es == ingoing_edges(graph, Unwrap(nid))
                  IN  IF \E i \in 1..Len(es) :
                            id2node(graph, es[i].from) = None
                               \/ id2node(graph, es[i].to) = None
                      THEN Panic
                      ELSE Ok([i \in 1..Len(es) |->
                                  FullEdge(graph.id2node[es[i].from],
                                           graph.id2node[es[i].to], es[i].label)])
             ELSE Ok(<<>>)
    ELSE Ok(<<>>)

(***************************************************************************)
(* Harmonic centrality (Webgraph::calculate_centrality).                   *)
(*                                                                         *)
(* An f64 is modelled exactly, as a reduced fraction [num, den] of         *)
(* naturals: den = 0 is +infinity when num = 1 and NaN when num = 0.       *)
(* Rounding is not modelled: the sums below are the real-number sums.      *)
(***************************************************************************)
RECURSIVE Gcd(_, _)
Gcd(a, b) == IF b = 0 THEN a ELSE Gcd(b, a % b)

F64(n, d) == [num |-> n \div Gcd(n, d), den |-> d \div Gcd(n, d)]

F64Inf == [num |-> 1, den |-> 0]

F64NaN == [num |-> 0, den |-> 0]

F64Zero == [num |-> 0, den |-> 1]

\* `n as f64` for a small n
F64FromInt(n) == [num |-> n, den |-> 1]

\* a + b
F64Add(a, b) ==
    IF a = F64NaN \/ b = F64NaN THEN F64NaN
    ELSE IF a = F64Inf \/ b = F64Inf THEN F64Inf
    ELSE F64(a.num * b.den + b.num * a.den, a.den * b.den)

\* a / b
F64Div(a, b) ==
    IF a = F64NaN \/ b = F64NaN THEN F64NaN
    ELSE IF a = F64Inf THEN (IF b = F64Inf THEN F64NaN ELSE F64Inf)
    ELSE IF b = F64Inf THEN F64Zero
    ELSE IF b.num = 0 THEN (IF a.num = 0 THEN F64NaN ELSE F64Inf)
    ELSE F64(a.num * b.den, a.den * b.num)

\* a > 0.0
F64Positive(a) == a.num > 0

\* The closure harmonic_centrality / host_harmonic_centrality passes in.
node_distances(wg, proj, node) ==
    IF proj = "full"
    THEN raw_reversed_distances(wg, node)
    ELSE raw_host_reversed_distances(wg, node)

\* centrality_values without the filter that drops the node itself.
centrality_values_with_self(d, node_id) ==
    [other \in DOMAIN d |-> F64Div(F64FromInt(1), F64FromInt(d[other]))]

\* .filter(|(other_id, _)| *other_id != *node_id)
\* .map(|(other_node, dist)| (other_node, 1f64 / dist as f64))
centrality_values(d, node_id) ==
    [other \in DOMAIN d \ {node_id} |-> F64Div(F64FromInt(1), F64FromInt(d[other]))]

\* .map(|(_, val)| val).sum::<f64>()
RECURSIVE F64Sum(_, _)
F64Sum(vals, ids) ==
    IF ids = {}
    THEN F64Zero
    ELSE LET id == CHOOSE i \in ids : \A j \in ids : i <= j
         IN  F64Add(vals[id], F64Sum(vals, ids \ {id}))

\* The centrality the closure computes for one node id.
node_centrality(wg, proj, graph, node_id, norm_factor) ==
    LET vals == centrality_values(node_distances(wg, proj, graph.id2node[node_id]),
                                  node_id)
    IN  F64Div(F64Sum(vals, DOMAIN vals), norm_factor)

\* calculate_centrality keeping the zero entries.
centrality_filter_keeps_all(c) == DOMAIN c

\* .filter(|(_, centrality)| *centrality > 0.0)
centrality_filter(c) == {id \in DOMAIN c : F64Positive(c[id])}

\* Webgraph::calculate_centrality.  `nodes.len() - 1` on usize: with no
\* nodes it panics under overflow checks and wraps otherwise, and then no
\* node is left to divide by the factor.
calculate_centrality(wg, proj, graph, overflow_checks) ==
    LET nodes == StoreNodes(graph)
    IN  IF Len(nodes) = 0
        THEN IF overflow_checks THEN Panic ELSE Ok(<<>>)
        ELSE IF \E i \in 1..Len(nodes) : id2node(graph, nodes[i]) = None
        THEN Panic
        ELSE LET norm_factor == F64FromInt(Len(nodes) - 1)
                 c == [id \in Range(nodes) |->
                          node_centrality(wg, proj, graph, id, norm_factor)]
                 kept == centrality_filter(c)
             IN  Ok([n \in {graph.id2node[id] : id \in kept} |->
                        c[CHOOSE id \in kept : graph.id2node[id] = n]])

\* Webgraph::harmonic_centrality
harmonic_centrality(wg, overflow_checks) ==
    IF wg.full_graph = None
    THEN Ok(<<>>)
    ELSE calculate_centrality(wg, "full", Unwrap(wg.full_graph), overflow_checks)

\* Webgraph::host_harmonic_centrality
host_harmonic_centrality(wg, overflow_checks) ==
    IF wg.host_graph = None
    THEN Ok(<<>>)
    ELSE calculate_centrality(wg, "host", Unwrap(wg.host_graph), overflow_checks)

(***************************************************************************)
(* Map-reduce (src/mapreduce/mod.rs; the manager and the worker are        *)
(* mapreduce/manager.rs and mapreduce/worker.rs, described in sections     *)
(* 4.7 and 4.8 of the specification).                                      *)
(*                                                                         *)
(* The job is checked for one instance of the traits: a map-input is a     *)
(* number, Map::map squares it, and the accumulator O2 is the multiset of  *)
(* the O1 values folded into it, so that a lost or repeated fold shows.    *)
(***************************************************************************)
\* The most map-inputs of a job.
MaxInputs == 3
\* The most workers of a roster.
MaxWorkers == 2
\* The most failures injected into one task.
MaxTaskFailures == 2

InputValues == {1, 2}

\* Sequences over S of length at most n.
SeqsUpTo(S, n) == UNION {[1..k -> S] : k \in 0..n}

\* Map::map
map(input) == input * input

\* O2::from(O1)
O2From(o1) == (o1 :> 1)

\* Reduce<O1>::reduce for O2
reduce(acc, o1) ==
    IF o1 \in DOMAIN acc THEN [acc EXCEPT ![o1] = @ + 1] ELSE (o1 :> 1) @@ acc

\* The manager folding one worker's reply into the running accumulator,
\* which is initialised from the first reply.
Fold(acc, o1) == IF acc = None THEN Some(O2From(o1)) ELSE Some(reduce(Unwrap(acc), o1))

\* enum Task<T> { Job(T), AllFinished }
Job(t) == [tag |-> "Job", job |-> t]

AllFinished == [tag |-> "AllFinished"]

\* A failed task that is lost instead of being queued again.
Requeue_drops(queue, task) == queue

\* The manager queues a failed task again, for another worker.
Requeue(queue, task) == Append(queue, task)

\* Error::NoAvailableWorker
NoAvailableWorker == "NoAvailableWorker"

\* A roster counted as exhausted by the first worker that fails the task.
RosterExhausted_by_one(tried, workers) == tried # {}

\* Every worker of the roster has failed the task.
RosterExhausted(tried, workers) == tried = workers

\* Draining that does not wait for the tasks in flight.
Drained_ignores_in_flight(m) == m.next > Len(m.inputs) /\ m.queue = <<>>

\* MapReduce::map_reduce: what manager.run returns to the caller.
map_reduce(m) == m.result

\* Tasks are the positions of the input sequence; busy[w] = 0 is an idle worker.
MRJob(workers, inputs) ==
    [workers |-> workers,
     inputs |-> inputs,
     next |-> 1,
     queue |-> <<>>,
     busy |-> [w \in workers |-> 0],
     sent |-> [w \in workers |-> <<>>],
     tried |-> [t \in DOMAIN inputs |-> {}],
     acc |-> None,
     status |-> "running",
     error |-> None,
     result |-> None,
     folded |-> [t \in DOMAIN inputs |-> 0],
     fails |-> [t \in DOMAIN inputs |-> 0]]

\* No job: the value of mr while the graph is exercised.
MRIdle == MRJob({}, <<>>)

\* Workers that were sent the AllFinished sentinel.
Finished(m) ==
    {w \in m.workers : m.sent[w] # <<>> /\ m.sent[w][Len(m.sent[w])] = AllFinished}

\* The input iterator is drained and no task is queued or in flight.
Drained(m) ==
    /\ m.next > Len(m.inputs)
    /\ m.queue = <<>>
    /\ \A w \in m.workers : m.busy[w] = 0

\* Remove the first occurrence of task t from the queue.
Dequeue(queue, t) ==
    LET i == CHOOSE j \in 1..Len(queue) :
                 queue[j] = t /\ \A k \in 1..(j - 1) : queue[k] # t
    IN  SubSeq(queue, 1, i - 1) \o SubSeq(queue, i + 1, Len(queue))

(***************************************************************************)
(* Freeze and thaw (From<Webgraph> for FrozenWebgraph and back).           *)
(* directory::scan_folder and directory::recreate_folder copy the subtree  *)
(* rooted at the Webgraph's path out of and back into the file system.     *)
(***************************************************************************)
\* The graph directories under path.
DirsUnder(path, fs) == {p \in DOMAIN fs : p[1] = path}

\* directory::scan_folder(path)
scan_folder(path, fs) ==
    [name |-> path, entries |-> [p \in DirsUnder(path, fs) |-> fs[p]]]

\* fs::remove_dir_all(path)
remove_dir_all(path, fs) == [p \in DOMAIN fs \ DirsUnder(path, fs) |-> fs[p]]

\* directory::recreate_folder(root)
recreate_folder(root, fs) == root.entries @@ fs

\* From<Webgraph> for FrozenWebgraph, given the file system after graph.flush()
Freeze(graph, flushed) ==
    [root |-> scan_folder(graph.path, flushed),
     has_full |-> graph.full_graph # None,
     has_host |-> graph.host_graph # None]

\* The file system From<FrozenWebgraph> for Webgraph leaves before opening.
ThawFs(fr, fs) == recreate_folder(fr.root, remove_dir_all(fr.root.name, fs))

\* From<FrozenWebgraph> for Webgraph
Thaw(fr, fs) == BuilderOpen(fr.root.name, fr.has_full, fr.has_host, ThawFs(fr, fs))

(***************************************************************************)
(* The graph state machine.  Two Webgraphs, G1 at path P1 and G2 at P2,    *)
(* are built by inserts; G1 may merge G2 (consuming it), and G1 may be     *)
(* frozen, its directory deleted or reused, and thawed again.              *)
(***************************************************************************)
VARIABLES
    wg,      \* wg[g]: Option<Webgraph>, None once moved into merge or freeze
    fs,      \* the file system: graph directory -> flushed contents
    frozen,  \* Option<FrozenWebgraph>
    pre,     \* history: the Webgraph as it was when it was last frozen
    mr,      \* the map-reduce job: the manager, its workers and the wire
    url,     \* a Url and the result of the last method called on it
    iter,    \* an Adjacency and the EdgeIterator reading it
    dj       \* one run of Webgraph::dijkstra, step by step

gvars == <<wg, fs, frozen, pre>>

vars == <<wg, fs, frozen, pre, mr, url, iter, dj>>

\* Node names the inserts draw from.
NameA == <<"a", ".", "b">>
NameWwwA == <<"w", "w", "w", ".", "a", ".", "b">>
NameC == <<"c">>
NameUnknown == <<"e">>
NodeNames == {NameA, NameWwwA, NameC}

\* The edges the inserts draw from: every pair of names unlabelled, and the
\* pairs from NameA also labelled (so that parallel edges differ by label).
InsertInputs ==
    {<<from, to, "">> : from \in NodeNames, to \in NodeNames}
        \cup {<<NameA, to, "l">> : to \in {NameWwwA, NameC}}

\* The most edges one Webgraph receives by insert.
MaxEdges == 2
\* The most edges the Webgraph that is merged into the other receives.
MaxOtherEdges == 1

Graphs == {"G1", "G2"}

PathOf(g) == IF g = "G1" THEN "P1" ELSE "P2"

\* Projections a Webgraph is opened with: <<with_full, with_host>>.
Configs == {<<TRUE, TRUE>>, <<TRUE, FALSE>>, <<FALSE, TRUE>>}

EdgeLimit(g) == IF g = "G1" THEN MaxEdges ELSE MaxOtherEdges

\* Edges a Webgraph holds (the larger of its projections).
EdgeCount(w) ==
    LET counts == {Len(StoreEdges(s)) : s \in w.full_graph \cup w.host_graph}
    IN  IF counts = {} THEN 0 ELSE CHOOSE c \in counts : \A d \in counts : d <= c

GraphInit ==
    \E c1 \in Configs, c2 \in Configs :
        LET w1 == BuilderOpen("P1", c1[1], c1[2], <<>>)
            w2 == BuilderOpen("P2", c2[1], c2[2], <<>>)
        IN  /\ wg = [g \in Graphs |-> IF g = "G1" THEN Some(w1) ELSE Some(w2)]
            /\ fs = OpenedDirs(w2, OpenedDirs(w1, <<>>))
            /\ frozen = None
            /\ pre = None
            /\ mr = MRIdle
            /\ url = None
            /\ iter = None
            /\ dj = None

Insert(g, from, to, label) ==
    /\ wg[g] # None
    /\ EdgeCount(Unwrap(wg[g])) < EdgeLimit(g)
    /\ wg' = [wg EXCEPT ![g] = Some(WebgraphInsert(Unwrap(wg[g]), from, to, label))]
    /\ UNCHANGED <<fs, frozen, pre, mr, url, iter, dj>>

\* G1.flush()
Flush ==
    /\ wg["G1"] # None
    /\ fs' = WebgraphFlush(Unwrap(wg["G1"]), fs)
    /\ UNCHANGED <<wg, frozen, pre, mr, url, iter, dj>>

\* G1.merge(G2)
Merge ==
    /\ wg["G1"] # None /\ wg["G2"] # None
    /\ LET merged == WebgraphMerge(Unwrap(wg["G1"]), Unwrap(wg["G2"]))
       IN  /\ wg' = [wg EXCEPT !["G1"] = Some(merged), !["G2"] = None]
           /\ fs' = WebgraphFlush(merged, fs)
    /\ UNCHANGED <<frozen, pre, mr, url, iter, dj>>

\* let frozen: FrozenWebgraph = G1.into(), once G2 has been merged
FreezeG1 ==
    /\ wg["G1"] # None /\ wg["G2"] = None /\ frozen = None
    /\ LET graph == Unwrap(wg["G1"])
           flushed == WebgraphFlush(graph, fs)
       IN  /\ frozen' = Some(Freeze(graph, flushed))
           /\ fs' = flushed
           /\ pre' = Some(graph)
    /\ wg' = [wg EXCEPT !["G1"] = None]
    /\ UNCHANGED <<mr, url, iter, dj>>

\* std::fs::remove_dir_all(path) while the graph is frozen
DeleteDir ==
    /\ frozen # None
    /\ DirsUnder(Unwrap(frozen).root.name, fs) # {}
    /\ fs' = remove_dir_all(Unwrap(frozen).root.name, fs)
    /\ UNCHANGED <<wg, frozen, pre, mr, url, iter, dj>>

\* While the graph is frozen, another graph is built and flushed at its path.
ReuseDir(node) ==
    /\ frozen # None
    /\ LET path == Unwrap(frozen).root.name
           other == BuilderOpen(path, TRUE, TRUE, remove_dir_all(path, fs))
       IN  fs' = WebgraphFlush(WebgraphInsert(other, node, NameC, ""),
                               remove_dir_all(path, fs))
    /\ UNCHANGED <<wg, frozen, pre, mr, url, iter, dj>>

\* let graph: Webgraph = frozen.into()
ThawG1 ==
    /\ frozen # None
    /\ LET fr == Unwrap(frozen)
       IN  /\ wg' = [wg EXCEPT !["G1"] = Some(Thaw(fr, fs))]
           /\ fs' = OpenedDirs(Thaw(fr, fs), ThawFs(fr, fs))
    /\ frozen' = None
    /\ pre' = None
    /\ UNCHANGED <<mr, url, iter, dj>>

GraphNext ==
    \/ \E g \in Graphs, e \in InsertInputs : Insert(g, e[1], e[2], e[3])
    \/ Flush
    \/ Merge
    \/ FreezeG1
    \/ DeleteDir
    \/ \E node \in NodeNames : ReuseDir(node)
    \/ ThawG1

(***************************************************************************)
(* The map-reduce state machine: one job of the manager over its roster.   *)
(***************************************************************************)
\* A job over a roster of workers and a sequence of inputs; no Webgraph open.
MRInit ==
    /\ wg = [g \in Graphs |-> None]
    /\ fs = <<>>
    /\ frozen = None
    /\ pre = None
    /\ url = None
    /\ iter = None
    /\ dj = None
    /\ \E n \in 1..MaxWorkers, inputs \in SeqsUpTo(InputValues, MaxInputs) :
           mr = MRJob(1..n, inputs)

\* The manager sends the next map-input to an idle worker.
DispatchNew(w) ==
    /\ mr.status = "running" /\ mr.busy[w] = 0 /\ w \notin Finished(mr)
    /\ mr.next <= Len(mr.inputs)
    /\ mr' = [mr EXCEPT !.busy[w] = mr.next,
                        !.next = @ + 1,
                        !.sent[w] = Append(@, Job(mr.inputs[mr.next]))]
    /\ UNCHANGED <<gvars, url, iter, dj>>

\* The manager sends a queued task to an idle worker that has not failed it.
DispatchRetry(w, t) ==
    /\ mr.status = "running" /\ mr.busy[w] = 0 /\ w \notin Finished(mr)
    /\ t \in Range(mr.queue) /\ w \notin mr.tried[t]
    /\ mr' = [mr EXCEPT !.busy[w] = t,
                        !.queue = Dequeue(@, t),
                        !.sent[w] = Append(@, Job(mr.inputs[t]))]
    /\ UNCHANGED <<gvars, url, iter, dj>>

\* A worker replies with the map output, which the manager folds.
WorkerReplies(w) ==
    /\ mr.status = "running" /\ mr.busy[w] # 0
    /\ LET t == mr.busy[w]
       IN  mr' = [mr EXCEPT !.busy[w] = 0,
                            !.acc = Fold(@, map(mr.inputs[t])),
                            !.folded[t] = @ + 1]
    /\ UNCHANGED <<gvars, url, iter, dj>>

\* A worker does not respond or its connection fails: the task goes to
\* another worker, or the job fails when every worker has failed it.
WorkerFails(w) ==
    /\ mr.status = "running" /\ mr.busy[w] # 0
    /\ mr.fails[mr.busy[w]] < MaxTaskFailures
    /\ LET t == mr.busy[w]
           tried == mr.tried[t] \cup {w}
       IN  IF RosterExhausted(tried, mr.workers)
           THEN mr' = [mr EXCEPT !.busy[w] = 0,
                                 !.tried[t] = tried,
                                 !.fails[t] = @ + 1,
                                 !.status = "failed",
                                 !.error = Some(NoAvailableWorker),
                                 !.result = None]
           ELSE mr' = [mr EXCEPT !.busy[w] = 0,
                                 !.tried[t] = tried,
                                 !.fails[t] = @ + 1,
                                 !.queue = Requeue(@, t)]
    /\ UNCHANGED <<gvars, url, iter, dj>>

\* After a fatal error the tasks in flight drain; their replies are dropped.
Drain(w) ==
    /\ mr.status = "failed" /\ mr.busy[w] # 0
    /\ mr' = [mr EXCEPT !.busy[w] = 0]
    /\ UNCHANGED <<gvars, url, iter, dj>>

\* Once drained, the manager sends the AllFinished sentinel to each worker.
SendAllFinished(w) ==
    /\ mr.status = "running" /\ Drained(mr) /\ w \notin Finished(mr)
    /\ mr' = [mr EXCEPT !.sent[w] = Append(@, AllFinished)]
    /\ UNCHANGED <<gvars, url, iter, dj>>

\* The manager returns the accumulator.
Return ==
    /\ mr.status = "running" /\ Drained(mr) /\ Finished(mr) = mr.workers
    /\ mr' = [mr EXCEPT !.status = "done", !.result = mr.acc]
    /\ UNCHANGED <<gvars, url, iter, dj>>

MRNext ==
    \/ \E w \in mr.workers : DispatchNew(w)
    \/ \E w \in mr.workers, t \in DOMAIN mr.inputs : DispatchRetry(w, t)
    \/ \E w \in mr.workers : WorkerReplies(w)
    \/ \E w \in mr.workers : WorkerFails(w)
    \/ \E w \in mr.workers : Drain(w)
    \/ \E w \in mr.workers : SendAllFinished(w)
    \/ Return

(***************************************************************************)
(* The Url state machine: a Url built from a string, and its methods       *)
(* called on it.  The strings are a protocol, dot-joined labels and a      *)
(* path.                                                                   *)
(***************************************************************************)
\* The most labels of a host.
MaxLabels == 4

UrlLabels == {<<>>, <<"a">>, <<"c", "o">>, <<"u", "k">>, Www}

UrlProtocols == {<<>>, HttpPrefix, HttpsPrefix, SlashSlash}

UrlPaths == {<<>>, <<"/", "p", ".", "q">>}

\* The labels joined by dots.
RECURSIVE JoinDots(_)
JoinDots(labels) ==
    IF labels = <<>>
    THEN <<>>
    ELSE IF Len(labels) = 1
    THEN labels[1]
    ELSE labels[1] \o <<".">> \o JoinDots(Tail(labels))

UrlInputs ==
    {p \o JoinDots(ls) \o q :
        p \in UrlProtocols, ls \in SeqsUpTo(UrlLabels, MaxLabels), q \in UrlPaths}

\* Url::from(String)
UrlInit ==
    /\ wg = [g \in Graphs |-> None]
    /\ fs = <<>>
    /\ frozen = None
    /\ pre = None
    /\ mr = MRIdle
    /\ iter = None
    /\ dj = None
    /\ \E raw \in UrlInputs : url = [raw |-> raw, method |-> "from", result |-> None]

UrlHost ==
    /\ url' = [url EXCEPT !.method = "host", !.result = host(url.raw)]
    /\ UNCHANGED <<gvars, mr, iter, dj>>

UrlDomain ==
    /\ url' = [url EXCEPT !.method = "domain", !.result = domain(url.raw)]
    /\ UNCHANGED <<gvars, mr, iter, dj>>

UrlSubdomain ==
    /\ url' = [url EXCEPT !.method = "subdomain", !.result = subdomain(url.raw)]
    /\ UNCHANGED <<gvars, mr, iter, dj>>

UrlHostWithoutSpecificSubdomains ==
    /\ url' = [url EXCEPT !.method = "host_without_specific_subdomains",
                          !.result = host_without_specific_subdomains(url.raw)]
    /\ UNCHANGED <<gvars, mr, iter, dj>>

UrlNext ==
    \/ UrlHost
    \/ UrlDomain
    \/ UrlSubdomain
    \/ UrlHostWithoutSpecificSubdomains

(***************************************************************************)
(* EdgeIterator (src/webgraph/mod.rs) over an Adjacency.  An iterator is   *)
(* [current_block_idx, blocks, current_block]; current_block is None or    *)
(* Some of the edges its boxed iterator has still to yield.                *)
(***************************************************************************)
\* The elements of a set of numbers, ascending.
RECURSIVE Ascending(_)
Ascending(S) ==
    IF S = {}
    THEN <<>>
    ELSE <<CHOOSE x \in S : \A y \in S : x <= y>>
             \o Ascending(S \ {CHOOSE x \in S : \A y \in S : x <= y})

\* block.into_iter().flat_map(|(node_id, edges)| ...): the Edges of the
\* block's nodes in nodes, in that order.
RECURSIVE BlockEdges(_, _)
BlockEdges(block, nodes) ==
    IF nodes = <<>>
    THEN <<>>
    ELSE [i \in 1..Len(block[Head(nodes)]) |->
             Edge(Head(nodes), block[Head(nodes)][i].other, block[Head(nodes)][i].label)]
         \o BlockEdges(block, Tail(nodes))

\* EdgeIterator::new
EdgeIteratorNew(adjacency) ==
    [current_block_idx |-> 0,
     blocks |-> Ascending(DOMAIN adjacency),
     current_block |-> None]

\* EdgeIterator::load_next_block
load_next_block(it, adjacency) ==
    IF it.current_block_idx < Len(it.blocks)
    THEN [it EXCEPT
             !.current_block =
                 Some(BlockEdges(adjacency[it.blocks[it.current_block_idx + 1]],
                                 Ascending(DOMAIN adjacency[it.blocks[it.current_block_idx + 1]]))),
             !.current_block_idx = @ + 1]
    ELSE it

\* self.current_block.as_mut().and_then(|it| it.next()): the item.
BlockNextItem(it) ==
    IF it.current_block # None /\ Unwrap(it.current_block) # <<>>
    THEN Some(Head(Unwrap(it.current_block)))
    ELSE None

\* self.current_block.as_mut().and_then(|it| it.next()): the iterator after.
BlockAdvance(it) ==
    IF it.current_block # None /\ Unwrap(it.current_block) # <<>>
    THEN [it EXCEPT !.current_block = Some(Tail(Unwrap(it.current_block)))]
    ELSE it

\* The second half of next: load a block if none is held, then ask it.
NextAfterLoad(it) == [item |-> BlockNextItem(it), it |-> BlockAdvance(it)]

\* Iterator for EdgeIterator: next
EdgeIteratorNext(it, adjacency) ==
    IF BlockNextItem(it) # None
    THEN [item |-> BlockNextItem(it), it |-> BlockAdvance(it)]
    ELSE IF it.current_block = None
    THEN NextAfterLoad(load_next_block(it, adjacency))
    ELSE NextAfterLoad(it)

\* The most edges of the adjacency that is iterated.
MaxIterEdges == 3

\* The greatest node id of the adjacency that is iterated.
MaxIterNode == 3

\* The number of edges an adjacency holds.
AdjacencySize(adjacency) ==
    Cardinality({<<b, n, i>> \in UNION {UNION {{<<b, n, i>> : i \in DOMAIN adjacency[b][n]} :
                                               n \in DOMAIN adjacency[b]} :
                                        b \in DOMAIN adjacency} : TRUE})

\* An empty adjacency, no iterator yet.
IterInit ==
    /\ wg = [g \in Graphs |-> None]
    /\ fs = <<>>
    /\ frozen = None
    /\ pre = None
    /\ mr = MRIdle
    /\ url = None
    /\ dj = None
    /\ iter = [adjacency |-> EmptyAdjacency, it |-> None,
               yielded |-> <<>>, exhausted |-> FALSE]

\* Adjacency::insert(source, StoredEdge), before the iterator is made.
AdjacencyInsert(source, other, label) ==
    /\ iter.it = None
    /\ AdjacencySize(iter.adjacency) < MaxIterEdges
    /\ iter' = [iter EXCEPT !.adjacency = AdjInsert(@, source, StoredEdge(other, label))]
    /\ UNCHANGED <<gvars, mr, url, dj>>

\* EdgeIterator::new(adjacency)
IterNew ==
    /\ iter.it = None
    /\ iter' = [iter EXCEPT !.it = Some(EdgeIteratorNew(iter.adjacency))]
    /\ UNCHANGED <<gvars, mr, url, dj>>

\* One call of next(), until it has returned None.
IterNext ==
    /\ iter.it # None /\ ~iter.exhausted
    /\ iter' = [iter EXCEPT
                   !.it = Some(EdgeIteratorNext(Unwrap(iter.it), iter.adjacency).it),
                   !.yielded = @ \o [i \in 1..Cardinality(
                                       EdgeIteratorNext(Unwrap(iter.it), iter.adjacency).item) |->
                                       Unwrap(EdgeIteratorNext(Unwrap(iter.it), iter.adjacency).item)],
                   !.exhausted = EdgeIteratorNext(Unwrap(iter.it), iter.adjacency).item = None]
    /\ UNCHANGED <<gvars, mr, url, dj>>

IterNextStep ==
    \/ \E source \in 0..MaxIterNode, other \in 0..1, label \in {"", "l"} :
           AdjacencyInsert(source, other, label)
    \/ IterNew
    \/ IterNext

(***************************************************************************)
(* One run of Webgraph::dijkstra, an iteration of its loop at a time, on   *)
(* a graph store built by inserts.  pushes counts the calls of             *)
(* queue.push, the initial one included.                                   *)
(***************************************************************************)
\* The most edges of the graph that is traversed.
MaxDjEdges == 4

\* The edges the traversed graph is built from: a cycle through three
\* nodes, a two-cycle and a self-loop; an edge may be inserted repeatedly.
DjEdgeInputs ==
    {<<NameA, NameA>>, <<NameA, NameWwwA>>, <<NameWwwA, NameA>>,
     <<NameWwwA, NameC>>, <<NameC, NameA>>}

DjInit ==
    /\ wg = [g \in Graphs |-> None]
    /\ fs = <<>>
    /\ frozen = None
    /\ pre = None
    /\ mr = MRIdle
    /\ url = None
    /\ iter = None
    /\ dj = [store |-> StoreOpen(FullPath("P1"), <<>>), phase |-> "build", dir |-> "out",
             st |-> [queue |-> <<>>, distances |-> <<>>], pushes |-> 0]

\* GraphStore::insert while the graph is built.
DjInsert(from, to) ==
    /\ dj.phase = "build"
    /\ Len(StoreEdges(dj.store)) < MaxDjEdges
    /\ dj' = [dj EXCEPT !.store = StoreInsert(@, from, to, "")]
    /\ UNCHANGED <<gvars, mr, url, iter>>

\* dijkstra called: the early return for an unknown source, or the first
\* push and insert.
DjStart(source, dir) ==
    /\ dj.phase = "build"
    /\ dj' = IF node2id(dj.store, source) = None
             THEN [dj EXCEPT !.phase = "returned", !.dir = dir]
             ELSE [dj EXCEPT !.phase = "running", !.dir = dir,
                             !.st = DijkstraInit(Unwrap(node2id(dj.store, source))),
                             !.pushes = 1]
    /\ UNCHANGED <<gvars, mr, url, iter>>

\* One iteration of `while let Some(state) = queue.pop()`.
DjPop ==
    /\ dj.phase = "running" /\ dj.st.queue # <<>>
    /\ dj' = [dj EXCEPT
                 !.st = DijkstraStep(@, dj.store, dj.dir),
                 !.pushes = @ + Len(DijkstraStep(dj.st, dj.store, dj.dir).queue)
                              - (Len(dj.st.queue) - 1)]
    /\ UNCHANGED <<gvars, mr, url, iter>>

\* queue.pop() returns None: the loop ends and distances is returned.
DjReturn ==
    /\ dj.phase = "running" /\ dj.st.queue = <<>>
    /\ dj' = [dj EXCEPT !.phase = "returned"]
    /\ UNCHANGED <<gvars, mr, url, iter>>

DjNext ==
    \/ \E e \in DjEdgeInputs : DjInsert(e[1], e[2])
    \/ \E source \in NodeNames \cup {NameUnknown}, dir \in {"out", "in"} : DjStart(source, dir)
    \/ DjPop
    \/ DjReturn

(***************************************************************************)
(* Specifications: Spec exercises the Webgraphs, SpecMR the map-reduce     *)
(* job; each leaves the other part at rest.                                *)
(***************************************************************************)
Spec == GraphInit /\ [][GraphNext]_vars

SpecMR == MRInit /\ [][MRNext]_vars

SpecUrl == UrlInit /\ [][UrlNext]_vars

SpecIter == IterInit /\ [][IterNextStep]_vars

\* The loop of dijkstra runs on: an enabled iteration or return is taken.
SpecDijkstra == DjInit /\ [][DjNext]_vars /\ WF_vars(DjPop) /\ WF_vars(DjReturn)

(***************************************************************************)
(* Reference notions the properties are stated with: the graph a store     *)
(* holds by node name, and breadth-first shortest path lengths in it.      *)
(***************************************************************************)
\* The open Webgraphs.
OpenGraphs == {Unwrap(wg[g]) : g \in {h \in Graphs : wg[h] # None}}

\* The open stores: the full and host graphs of the open Webgraphs.
OpenStores == UNION {w.full_graph \cup w.host_graph : w \in OpenGraphs}

\* The node names of a store.
NamesOf(store) == DOMAIN store.node2id

\* The <<from, to>> pairs, by name, of the edges stored as outgoing.
NameEdges(store) ==
    {<<store.id2node[e.from], store.id2node[e.to]>> : e \in Range(StoreEdges(store))}

ReverseEdges(E) == {<<e[2], e[1]>> : e \in E}

\* Breadth-first layers: dist maps the nodes seen to their layer, frontier
\* is layer k.
RECURSIVE Bfs(_, _, _, _)
Bfs(E, dist, frontier, k) ==
    LET next == {e[2] : e \in {f \in E : f[1] \in frontier}} \ DOMAIN dist
    IN  IF next = {}
        THEN dist
        ELSE Bfs(E, [n \in next |-> k + 1] @@ dist, next, k + 1)

\* Least number of edges on a directed path from s, for the nodes that have one.
ShortestFrom(E, s) == Bfs(E, (s :> 0), {s}, 0)

(***************************************************************************)
(* Properties.                                                             *)
(***************************************************************************)

\* C1: with the full graph configured, distances(source) of an inserted
\* source maps exactly the nodes reachable from it along outgoing edges
\* (itself with 0) to the least number of edges on a directed path to them.
C1_DistancesAreShortestPaths ==
    \A w \in OpenGraphs :
        w.full_graph # None =>
            \A s \in NamesOf(Unwrap(w.full_graph)) :
                distances(w, s) = Ok(ShortestFrom(NameEdges(Unwrap(w.full_graph)), s))

\* A graph with a node two edges away from one source, and another source
\* that cannot reach every node.
C1_Witness ==
    \E w \in OpenGraphs :
        /\ w.full_graph # None
        /\ \E s, t \in NamesOf(Unwrap(w.full_graph)) :
              /\ \E n \in DOMAIN distances(w, s).value : distances(w, s).value[n] = 2
              /\ DOMAIN distances(w, t).value # NamesOf(Unwrap(w.full_graph))

\* C2: reversed_distances(s) of an inserted s maps exactly the nodes that
\* can reach s (s with 0) to the least number of edges on a path to s; a
\* node nothing else links to yields only itself.
C2_ReversedDistancesAreShortestPaths ==
    \A w \in OpenGraphs :
        w.full_graph # None =>
            \A s \in NamesOf(Unwrap(w.full_graph)) :
                LET E == NameEdges(Unwrap(w.full_graph))
                IN  /\ reversed_distances(w, s) = Ok(ShortestFrom(ReverseEdges(E), s))
                    /\ (\A e \in E : e[2] = s => e[1] = s)
                          => reversed_distances(w, s) = Ok(s :> 0)

\* A node reached by another from two edges away, and one with no ingoing edge.
C2_Witness ==
    \E w \in OpenGraphs :
        /\ w.full_graph # None
        /\ \E s, t \in NamesOf(Unwrap(w.full_graph)) :
              /\ \E n \in DOMAIN reversed_distances(w, s).value :
                    reversed_distances(w, s).value[n] = 2
              /\ reversed_distances(w, t) = Ok(t :> 0)

\* The names a query may be asked about.
QueryNames == NodeNames \cup {NameUnknown}

\* C3: the four distance queries return an empty mapping, and no error,
\* for a source that is not a node of the graph they read or when that
\* graph is not configured.
C3_UnknownSourceIsEmpty ==
    \A w \in OpenGraphs : \A s \in QueryNames :
        /\ (w.full_graph = None \/ s \notin NamesOf(Unwrap(w.full_graph)))
              => /\ distances(w, s) = Ok(<<>>)
                 /\ reversed_distances(w, s) = Ok(<<>>)
        /\ (w.host_graph = None \/ s \notin NamesOf(Unwrap(w.host_graph)))
              => /\ host_distances(w, s) = Ok(<<>>)
                 /\ host_reversed_distances(w, s) = Ok(<<>>)

\* A graph of two edges asked about a name it does not hold, and a
\* Webgraph asked for a projection it does not have.
C3_Witness ==
    /\ \E w \in OpenGraphs :
          /\ w.full_graph # None /\ w.host_graph # None
          /\ Len(StoreEdges(Unwrap(w.full_graph))) = 2
          /\ NamesOf(Unwrap(w.host_graph)) # {}
          /\ \E s \in NodeNames :
                s \notin NamesOf(Unwrap(w.full_graph))
                   /\ s \notin NamesOf(Unwrap(w.host_graph))
    /\ \E w \in OpenGraphs : w.full_graph = None /\ w.host_graph # None

\* The stored edges of an adjacency under node id n.
StoredUnder(adj, n) == Range(AdjEdges(adj, n))

\* C4: outgoing and ingoing adjacency mirror each other: an edge (v, L)
\* stored under outgoing[u] is stored as (u, L) under ingoing[v], and
\* ingoing_edges(v) reports every edge outgoing_edges(u) reports into v.
C4_AdjacenciesMirror ==
    /\ \A store \in OpenStores :
          \A u \in 0..(store.next_id - 1) :
              \A e \in StoredUnder(store.adjacency, u) :
                  StoredEdge(u, e.label) \in StoredUnder(store.reversed_adjacency, e.other)
    /\ \A w \in OpenGraphs :
          w.full_graph # None =>
              LET graph == Unwrap(w.full_graph)
              IN  \A e \in Range(StoreEdges(graph)) :
                      LET r == WebgraphIngoingEdges(w, graph.id2node[e.to])
                      IN  /\ r.ok
                          /\ FullEdge(graph.id2node[e.from], graph.id2node[e.to], e.label)
                                \in Range(r.value)

\* A merged graph whose edges span two blocks, two of them parallel and
\* differing by label.
C4_Witness ==
    /\ wg["G2"] = None /\ wg["G1"] # None
    /\ \E store \in OpenStores :
          /\ Cardinality(DOMAIN store.adjacency) = 2
          /\ \E u \in 0..(store.next_id - 1) :
                \E e, f \in StoredUnder(store.adjacency, u) :
                    e.other = f.other /\ e.label # f.label

\* The <<from, to, label>> triples, by name, of a store's edges, in order.
NameEdgeSeq(store) ==
    LET es == StoreEdges(store)
    IN  [i \in 1..Len(es) |->
            <<store.id2node[es[i].from], store.id2node[es[i].to], es[i].label>>]

Count(seq, x) == Cardinality({i \in DOMAIN seq : seq[i] = x})

\* after holds the edges of before and of added, each as often as both do.
IsBagSum(after, before, added) ==
    \A x \in Range(after) \cup Range(before) \cup Range(added) :
        Count(after, x) = Count(before, x) + Count(added, x)

\* node2id and id2node are inverse bijections over the ids below next_id.
IdsBijective(store) ==
    /\ DOMAIN store.id2node = 0..(store.next_id - 1)
    /\ \A n \in DOMAIN store.node2id : store.id2node[store.node2id[n]] = n
    /\ \A i \in DOMAIN store.id2node : store.node2id[store.id2node[i]] = i

\* What one insert(from, to, label) does to a Webgraph before, giving after.
InsertEffect(before, after, from, to, label) ==
    LET hf == host_without_specific_subdomains(from)
        ht == host_without_specific_subdomains(to)
    IN  /\ (before.full_graph = None) = (after.full_graph = None)
        /\ (before.host_graph = None) = (after.host_graph = None)
        /\ before.full_graph # None =>
              LET b == Unwrap(before.full_graph)
                  a == Unwrap(after.full_graph)
              IN  /\ IsBagSum(NameEdgeSeq(a), NameEdgeSeq(b), <<<<from, to, label>>>>)
                  /\ NamesOf(a) = NamesOf(b) \cup {from, to}
                  /\ IdsBijective(a)
        /\ before.host_graph # None =>
              LET b == Unwrap(before.host_graph)
                  a == Unwrap(after.host_graph)
              IN  /\ IsBagSum(NameEdgeSeq(a), NameEdgeSeq(b), <<<<hf, ht, label>>>>)
                  /\ NamesOf(a) = NamesOf(b) \cup {hf, ht}
                  /\ IdsBijective(a)

\* No host graph holds a name whose host projection is another name.
OnlyProjectedHostNodes ==
    /\ host_without_specific_subdomains(NameWwwA) = NameA
    /\ \A w \in OpenGraphs :
          w.host_graph # None =>
              \A n \in NodeNames :
                  host_without_specific_subdomains(n) # n
                      => n \notin NamesOf(Unwrap(w.host_graph))

\* C5: every insert(from, to, label) adds the edge verbatim to the full
\* graph and the edge (h(from), h(to), label) to the host graph, h being
\* host_without_specific_subdomains, so the host graph's nodes grow by
\* exactly h(from) and h(to); a name such as www.a.b, whose projection is
\* a.b, is never a node of a host graph.
C5_InsertProjectsHosts ==
    /\ []OnlyProjectedHostNodes
    /\ [][\A g \in Graphs, e \in InsertInputs :
              Insert(g, e[1], e[2], e[3])
                  => InsertEffect(Unwrap(wg[g]), Unwrap(wg'[g]), e[1], e[2], e[3])]_vars

\* www.a.b was inserted into a Webgraph with both projections: it is a node
\* of the full graph, and its projection a.b a node of the host graph.
C5_Witness ==
    \E w \in OpenGraphs :
        /\ w.full_graph # None /\ w.host_graph # None
        /\ NameWwwA \in NamesOf(Unwrap(w.full_graph))
        /\ NameA \notin NamesOf(Unwrap(w.full_graph))
        /\ NameA \in NamesOf(Unwrap(w.host_graph))

\* What merge does to one projection present on both sides.
MergedIsUnion(merged, mine, theirs) ==
    /\ IsBagSum(NameEdgeSeq(merged), NameEdgeSeq(mine), NameEdgeSeq(theirs))
    /\ NamesOf(merged) = NamesOf(mine) \cup NamesOf(theirs)
    /\ IdsBijective(merged)

\* C6: after G1.merge(G2), each projection present on both sides holds, by
\* node name, the edges G1 held and the edges of G2, equal names being one
\* node, and the distances in merged G1 are the shortest path lengths in
\* the union graph.
C6_MergeIsUnion ==
    [][(wg["G1"] # None /\ wg["G2"] # None /\ wg'["G2"] = None) =>
          LET mine == Unwrap(wg["G1"])
              theirs == Unwrap(wg["G2"])
              merged == Unwrap(wg'["G1"])
          IN  /\ (mine.full_graph # None /\ theirs.full_graph # None) =>
                    LET m == Unwrap(merged.full_graph)
                        a == Unwrap(mine.full_graph)
                        b == Unwrap(theirs.full_graph)
                    IN  /\ MergedIsUnion(m, a, b)
                        /\ \A s \in NamesOf(m) :
                              distances(merged, s)
                                  = Ok(ShortestFrom(NameEdges(a) \cup NameEdges(b), s))
              /\ (mine.host_graph # None /\ theirs.host_graph # None) =>
                    LET m == Unwrap(merged.host_graph)
                        a == Unwrap(mine.host_graph)
                        b == Unwrap(theirs.host_graph)
                    IN  /\ MergedIsUnion(m, a, b)
                        /\ \A s \in NamesOf(m) :
                              host_distances(merged, s)
                                  = Ok(ShortestFrom(NameEdges(a) \cup NameEdges(b), s))
      ]_vars

\* G1 after merging a G2 that held an edge: three edges in the full graph
\* and a node two edges away from another.
C6_Witness ==
    /\ wg["G1"] # None /\ wg["G2"] = None /\ frozen = None
    /\ LET w == Unwrap(wg["G1"])
       IN  /\ w.full_graph # None
           /\ Unwrap(w.full_graph).path = FullPath("P1")
           /\ Len(StoreEdges(Unwrap(w.full_graph))) = MaxEdges + MaxOtherEdges
           /\ \E s \in NamesOf(Unwrap(w.full_graph)) :
                 \E n \in DOMAIN distances(w, s).value : distances(w, s).value[n] = 2

\* The centrality results of a Webgraph: <<graph, result>> for each
\* configured projection and each build profile.
CentralityResults(w) ==
    {<<Unwrap(w.full_graph), harmonic_centrality(w, oc)>> :
        oc \in {c \in BOOLEAN : w.full_graph # None}}
    \cup {<<Unwrap(w.host_graph), host_harmonic_centrality(w, oc)>> :
            oc \in {c \in BOOLEAN : w.host_graph # None}}

\* The nodes other than v that have a directed path to v.
Reaching(store, v) ==
    {u \in NamesOf(store) \ {v} : v \in DOMAIN ShortestFrom(NameEdges(store), u)}

\* 60 * (the sum over the nodes u reaching v of 1 / d(u -> v)), for d <= 6.
RECURSIVE SumOfReciprocals60(_, _, _)
SumOfReciprocals60(store, v, us) ==
    IF us = {}
    THEN 0
    ELSE LET u == CHOOSE x \in us : TRUE
         IN  (60 \div ShortestFrom(NameEdges(store), u)[v])
                + SumOfReciprocals60(store, v, us \ {u})

\* C7: in a graph of |N| >= 2 nodes every entry (v, c) of the harmonic
\* centrality has c = (1 / (|N| - 1)) * the sum over the nodes u # v that
\* can reach v of 1 / d(u -> v); v itself contributes no term.
C7_CentralityFormula ==
    \A w \in OpenGraphs : \A gr \in CentralityResults(w) :
        LET store == gr[1]
            r == gr[2]
        IN  Cardinality(NamesOf(store)) >= 2 =>
                /\ r.ok
                /\ \A v \in DOMAIN r.value :
                      /\ r.value[v].den > 0
                      /\ r.value[v].num * 60 * (Cardinality(NamesOf(store)) - 1)
                            = r.value[v].den
                                * SumOfReciprocals60(store, v, Reaching(store, v))

\* A node reached from one node over one edge and from another over two,
\* in a graph of three nodes: centrality (1 + 1/2) / 2.
C7_Witness ==
    \E w \in OpenGraphs : \E gr \in CentralityResults(w) :
        /\ gr[2].ok
        /\ \E v \in DOMAIN gr[2].value : gr[2].value[v] = [num |-> 3, den |-> 4]

\* C8: no entry of a centrality mapping is zero, and a node that no other
\* node can reach (one with no ingoing edge but self-loops) has no entry.
C8_NoZeroCentrality ==
    \A w \in OpenGraphs : \A gr \in CentralityResults(w) :
        LET store == gr[1]
            r == gr[2]
        IN  r.ok =>
                /\ \A v \in DOMAIN r.value : r.value[v] # F64Zero
                /\ \A v \in NamesOf(store) :
                      Reaching(store, v) = {} => v \notin DOMAIN r.value

\* A graph of several nodes with a self-loop on a node nothing else links
\* to: that node has no entry while another node has one.
C8_Witness ==
    \E w \in OpenGraphs : \E gr \in CentralityResults(w) :
        /\ gr[2].ok
        /\ DOMAIN gr[2].value # {}
        /\ \E v \in NamesOf(gr[1]) :
              /\ <<v, v>> \in NameEdges(gr[1])
              /\ Reaching(gr[1], v) = {}
              /\ v \notin DOMAIN gr[2].value

\* The four distance queries of a Webgraph about source s.
DistanceQueries(w, s) ==
    <<distances(w, s), reversed_distances(w, s),
      host_distances(w, s), host_reversed_distances(w, s)>>

\* C9: thawing a frozen Webgraph yields a Webgraph at the original path
\* with the same projections configured and the same contents: every
\* distance query returns what it returned before the freeze, whatever was
\* at the path in between.
C9_FreezeThawRoundTrip ==
    [][(frozen # None /\ frozen' = None) =>
          LET before == Unwrap(pre)
              after == Unwrap(wg'["G1"])
          IN  /\ after.path = before.path
              /\ (after.full_graph # None) = (before.full_graph # None)
              /\ (after.host_graph # None) = (before.host_graph # None)
              /\ \A s \in QueryNames :
                    DistanceQueries(after, s) = DistanceQueries(before, s)
      ]_vars

\* The accumulator a single machine gets by mapping and folding the inputs
\* one after the other.
RECURSIVE SequentialReduce(_, _, _)
SequentialReduce(inputs, k, acc) ==
    IF k > Len(inputs)
    THEN acc
    ELSE SequentialReduce(inputs, k + 1, Fold(acc, map(inputs[k])))

\* C10: with at most one failure injected per task, a job that completes
\* has folded the map output of every input exactly once, and returns the
\* accumulator of a sequential reduction over the same inputs.
C10_MapReduceExactlyOnce ==
    (mr.status = "done" /\ \A t \in DOMAIN mr.inputs : mr.fails[t] <= 1) =>
        /\ \A t \in DOMAIN mr.inputs : mr.folded[t] = 1
        /\ map_reduce(mr) = SequentialReduce(mr.inputs, 1, None)

\* A completed job of three inputs, two of them equal, each of two tasks
\* having failed once and been retried.
C10_Witness ==
    /\ mr.status = "done"
    /\ Len(mr.inputs) = MaxInputs
    /\ \E t, u \in DOMAIN mr.inputs : t # u /\ mr.inputs[t] = mr.inputs[u]
    /\ \A t \in DOMAIN mr.inputs : mr.fails[t] <= 1
    /\ Cardinality({t \in DOMAIN mr.inputs : mr.fails[t] = 1}) >= 2
    /\ map_reduce(mr) # None

\* C11: a job fails exactly when some single task has failed on every
\* worker of the roster; it then ends in NoAvailableWorker and map_reduce
\* yields no accumulator.  A failure on a task that some worker has not
\* failed leaves the job running, and a job that is not failed carries no
\* error.
C11_NoAvailableWorker ==
    /\ (mr.status = "failed") <=> (\E t \in DOMAIN mr.inputs : mr.tried[t] = mr.workers)
    /\ mr.status = "failed" =>
          /\ mr.error = Some(NoAvailableWorker)
          /\ map_reduce(mr) = None
    /\ mr.status # "failed" => mr.error = None
    /\ (mr.status = "done" /\ mr.inputs # <<>>) => map_reduce(mr) # None

\* A job of two workers that failed on a task both workers failed, after
\* another task had failed on one worker and succeeded on the other.
C11_Witness ==
    /\ mr.status = "failed"
    /\ Cardinality(mr.workers) = 2
    /\ \E t, u \in DOMAIN mr.inputs :
          /\ mr.tried[t] = mr.workers
          /\ Cardinality(mr.tried[u]) = 1 /\ mr.folded[u] = 1

\* C12: AllFinished is sent to a worker only when the input iterator is
\* drained and no task is queued or in flight; no worker is sent a Job
\* after AllFinished; and a job that returned its accumulator has sent
\* AllFinished to every worker of the roster.
C12_AllFinishedLast ==
    /\ [](\A w \in mr.workers :
             /\ \A i \in 1..Len(mr.sent[w]) :
                   (mr.sent[w][i] = AllFinished) => (i = Len(mr.sent[w]))
             /\ (mr.status = "done") =>
                   (mr.sent[w] # <<>> /\ mr.sent[w][Len(mr.sent[w])] = AllFinished))
    /\ [][\A w \in mr.workers :
              (mr'.sent[w] # mr.sent[w] /\ mr'.sent[w][Len(mr'.sent[w])] = AllFinished)
                  => /\ mr.next > Len(mr.inputs)
                     /\ mr.queue = <<>>
                     /\ \A v \in mr.workers : mr.busy[v] = 0
      ]_vars

\* A completed job of two workers and three inputs, one of which failed
\* once: both workers received Jobs and then AllFinished.
C12_Witness ==
    /\ mr.status = "done"
    /\ Cardinality(mr.workers) = 2
    /\ Len(mr.inputs) = MaxInputs
    /\ \E t \in DOMAIN mr.inputs : mr.fails[t] = 1
    /\ \A w \in mr.workers :
          Len(mr.sent[w]) >= 2 /\ mr.sent[w][Len(mr.sent[w])] = AllFinished

\* The dot-separated labels of a string.
RECURSIVE SplitDots(_)
SplitDots(str) ==
    IF str = <<>>
    THEN << <<>> >>
    ELSE LET r == SplitDots(Tail(str))
         IN  IF Head(str) = "."
             THEN << <<>> >> \o r
             ELSE << <<Head(str)>> \o r[1] >> \o Tail(r)

\* The last k labels, joined by dots.
LastLabels(labels, k) == JoinDots(SubSeq(labels, Len(labels) - k + 1, Len(labels)))

\* C13: domain() is host() when the host has at most one dot; otherwise it
\* is the last two labels of the host, or the last three when the last two
\* are co and uk; in every case it is a suffix of host().
C13_DomainIsLastLabels ==
    url.method = "domain" =>
        LET h == host(url.raw)
            labels == SplitDots(h)
            n == Len(labels)
        IN  /\ Len(url.result) <= Len(h)
            /\ url.result = SubSeq(h, Len(h) - Len(url.result) + 1, Len(h))
            /\ n <= 2 => url.result = h
            /\ n > 2 =>
                  url.result = IF LastLabels(labels, 2) = CoUk
                               THEN LastLabels(labels, 3)
                               ELSE LastLabels(labels, 2)

\* domain() called on a Url with a protocol, a path and a host of four
\* labels ending in co.uk: the result is the last three labels.
C13_Witness ==
    /\ url.method = "domain"
    /\ StartsWith(url.raw, HttpsPrefix)
    /\ Contains(strip_protocol(url.raw), "/")
    /\ Len(SplitDots(host(url.raw))) = 4
    /\ url.result = <<"a", ".", "c", "o", ".", "u", "k">>

\* The host without its domain suffix and the dot before it; None when
\* nothing is left.
SubdomainRef(raw) ==
    LET h == host(raw)
        rest == SubSeq(h, 1, Len(h) - Len(domain(raw)) - 1)
    IN  IF rest = <<>> THEN None ELSE Some(rest)

\* C14: host_without_specific_subdomains() is domain() when subdomain()
\* is exactly www and host() otherwise, where subdomain() is the host
\* without the domain suffix and its separating dot, None when that is
\* empty.
C14_HostWithoutWww ==
    /\ url.method = "subdomain" =>
          /\ url.result = SubdomainRef(url.raw)
          /\ url.result # None =>
                host(url.raw) = Unwrap(url.result) \o <<".">> \o domain(url.raw)
    /\ url.method = "host_without_specific_subdomains" =>
          url.result = IF SubdomainRef(url.raw) = Some(Www)
                       THEN domain(url.raw)
                       ELSE host(url.raw)

\* host_without_specific_subdomains() called on www.a.co.uk behind a
\* protocol: the subdomain is www and the result the domain, not the host.
C14_Witness ==
    /\ url.method = "host_without_specific_subdomains"
    /\ StartsWith(url.raw, HttpPrefix)
    /\ host(url.raw) = Www \o <<".", "a", ".", "c", "o", ".", "u", "k">>
    /\ url.result = <<"a", ".", "c", "o", ".", "u", "k">>

\* Every edge an adjacency stores, block by block.
RECURSIVE AdjacencyEdges(_, _)
AdjacencyEdges(adjacency, blocks) ==
    IF blocks = <<>>
    THEN <<>>
    ELSE BlockEdges(adjacency[Head(blocks)], Ascending(DOMAIN adjacency[Head(blocks)]))
             \o AdjacencyEdges(adjacency, Tail(blocks))

\* C15: an EdgeIterator iterated until next() returns None has yielded
\* every stored edge of every block exactly once.
C15_IteratorYieldsEveryEdge ==
    (iter.it # None /\ iter.exhausted) =>
        LET stored == AdjacencyEdges(iter.adjacency, Ascending(DOMAIN iter.adjacency))
        IN  \A e \in Range(stored) \cup Range(iter.yielded) :
                Count(iter.yielded, e) = Count(stored, e)

\* C16: every GraphStore a Webgraph holds is stored under the Webgraph's
\* own path, P/full and P/host, also after merge adopted a projection
\* that only the other Webgraph had.
C16_StoresUnderOwnPath ==
    \A w \in OpenGraphs :
        /\ \A store \in w.full_graph : store.path = FullPath(w.path)
        /\ \A store \in w.host_graph : store.path = HostPath(w.path)

\* C17: harmonic_centrality and host_harmonic_centrality of a configured
\* graph of fewer than two nodes return an empty mapping, with and
\* without overflow checks.
C17_FewNodesEmptyCentrality ==
    \A w \in OpenGraphs : \A gr \in CentralityResults(w) :
        Cardinality(NamesOf(gr[1])) < 2 => gr[2] = Ok(<<>>)

\* C18: the traversal ends with an empty heap; an iteration never changes
\* a distance that is recorded, and the pushes never outnumber the nodes
\* that have a distance, nor the nodes of the graph.
C18_DijkstraTerminates ==
    /\ [](dj.phase # "build" =>
             /\ dj.pushes <= Cardinality(DOMAIN dj.st.distances)
             /\ dj.pushes <= dj.store.next_id
             /\ dj.phase = "returned" => dj.st.queue = <<>>)
    /\ [][dj.phase = "running" =>
              \A n \in DOMAIN dj.st.distances :
                  dj'.st.distances[n] = dj.st.distances[n]]_vars
    /\ (dj.phase = "running" ~> dj.phase = "returned")

\* A returned traversal of a graph with a cycle through three nodes and a
\* fourth edge that is a self-loop or repeats an edge: three pushes.
C18_Witness ==
    /\ dj.phase = "returned"
    /\ dj.pushes = 3
    /\ Len(StoreEdges(dj.store)) = MaxDjEdges
    /\ {<<NameA, NameWwwA>>, <<NameWwwA, NameC>>, <<NameC, NameA>>}
          \subseteq {<<e[1], e[2]>> : e \in NameEdges(dj.store)}
    /\ Cardinality(DOMAIN dj.st.distances) = 3

=============================================================================
